---- MODULE Spec2Model ----
(***************************************************************************)
(* A model of bingo::AGraph (src/src/agraph/agraph.cpp): one Individual    *)
(* with its raw command array, the cached simplified command array and     *)
(* constants, the metadata flags, and the lazy update protocol.            *)
(*                                                                         *)
(* Command arrays are sequences of rows <<op, arg1, arg2>>; operand        *)
(* fields hold 0-based row indices as in the source, so row r of a stack   *)
(* is stack[r + 1].  Doubles are modelled by integers (1.0 is 1); NaN and  *)
(* the shape of a returned array are kept as separate record fields.       *)
(***************************************************************************)
EXTENDS Integers, Sequences, FiniteSets, TLC

\* ---------------------------------------------------------------- constants

\* column positions of a command row (0-based in the source)
kOpIdx == 0
kFirstArgumentIndex == 1
kSecondArgumentIndex == 2
\* columns of a command array (Eigen::ArrayX3i)
kInitialCommandCols == 3
\* const double kFitnessNotSet = 1e9
kFitnessNotSet == 1000000000

\* opcodes of bingocpp/agraph/operator_definitions.h used by the model
kVariable == 0
kConstant == 1
kAddition == 2
kAbs == 11

\* ------------------------------------------------------------------- bounds

\* longest command array a caller installs
MaxRows == 4
\* longest constants vector a caller injects with SetLocalOptimizationParams
MaxParams == 2
\* update() runs since the last write are counted up to this cap
MaxUpdateRuns == 2

\* ------------------------------------------------------------ command rows

Row(op, a, b) == <<op, a, b>>
OpOf(row) == row[kOpIdx + 1]
Arg1(row) == row[kFirstArgumentIndex + 1]
Arg2(row) == row[kSecondArgumentIndex + 1]

IsTerminal(op) == op \in {kVariable, kConstant}
IsBinary(op) == op \in {kAddition}

\* the rows an operator row reads (0-based row indices)
Operands(row) ==
    IF IsTerminal(OpOf(row)) THEN {}
    ELSE IF IsBinary(OpOf(row)) THEN {Arg1(row), Arg2(row)}
    ELSE {Arg1(row)}

\* a legal program: every operand refers to a strictly earlier row
WellFormed(stack) ==
    \A i \in 1..Len(stack) :
        /\ OpOf(stack[i]) \in {kVariable, kConstant, kAddition, kAbs}
        /\ \A a \in Operands(stack[i]) : a >= 0 /\ a < i - 1

\* ------------------------------------------------ simplification backend

\* simplification_backend::GetUtilizedCommands: the rows reachable backward from
\* the last row (as a set of 0-based row indices), one reverse sweep.
RECURSIVE UtilizedFrom(_, _, _)
UtilizedFrom(stack, i, used) ==
    IF i = 0 THEN used
    ELSE UtilizedFrom(stack, i - 1,
                      IF (i - 1) \in used
                      THEN used \cup Operands(stack[i])
                      ELSE used)

UtilizedRows(stack) ==
    IF Len(stack) = 0 THEN {}
    ELSE UtilizedFrom(stack, Len(stack), {Len(stack) - 1})

\* Constant folding pass of the simplifier: an operator row all of whose
\* operands are constant terminals becomes a constant terminal itself.
\* foldUnary says whether one-operand operators are folded as well.
RECURSIVE FoldPrefix(_, _, _)
FoldPrefix(stack, n, foldUnary) ==
    IF n = 0 THEN <<>>
    ELSE LET done == FoldPrefix(stack, n - 1, foldUnary)
             row == stack[n]
             ops == Operands(row)
             allConst == \A a \in ops : OpOf(done[a + 1]) = kConstant
             folds == /\ ~IsTerminal(OpOf(row))
                      /\ allConst
                      /\ (IsBinary(OpOf(row)) \/ foldUnary)
         IN  Append(done,
                    IF folds
                    THEN Row(kConstant, Arg1(done[Arg1(row) + 1]),
                                        Arg1(done[Arg1(row) + 1]))
                    ELSE row)

\* Dead-code elimination: keep the utilized rows, packed contiguously, with
\* operator operands rewritten to the new row positions.
NewIndex(used, r) == Cardinality({u \in used : u < r})

RECURSIVE PackPrefix(_, _, _)
PackPrefix(stack, n, used) ==
    IF n = 0 THEN <<>>
    ELSE LET done == PackPrefix(stack, n - 1, used)
             row == stack[n]
         IN  IF (n - 1) \notin used THEN done
             ELSE IF IsTerminal(OpOf(row)) THEN Append(done, row)
             ELSE Append(done, Row(OpOf(row), NewIndex(used, Arg1(row)),
                                              NewIndex(used, Arg2(row))))

DropUnused(stack) == PackPrefix(stack, Len(stack), UtilizedRows(stack))

\* simplification_backend::SimplifyStack, the local strategy
SimplifyStack(stack) == DropUnused(FoldPrefix(stack, Len(stack), FALSE))

\* what the external simplification oracle returns when it answers
OracleSimplify(stack) == DropUnused(FoldPrefix(stack, Len(stack), TRUE))

\* PythonSimplifyStack letting the oracle's failure out as an exception
python_simplify_no_fallback(stack, oracle_ok) ==
    IF oracle_ok THEN [threw |-> FALSE, stack |-> OracleSimplify(stack)]
    ELSE [threw |-> TRUE, stack |-> stack]

\* simplification_backend::PythonSimplifyStack, the thorough strategy: asks
\* the oracle and falls back to the local strategy when the oracle fails.
\* The result says whether the call threw, and the stack it returned.
PythonSimplifyStack(stack, oracle_ok) ==
    [threw |-> FALSE,
     stack |-> IF oracle_ok THEN OracleSimplify(stack)
               ELSE SimplifyStack(stack)]

\* ------------------------------------------------------ evaluation backend

\* value of row r (0-based) of the stack at one sample; a constant whose
\* index lies outside the constants vector reads the value junk.
RECURSIVE RowValue(_, _, _, _, _)
RowValue(stack, r, sample, constants, junk) ==
    LET row == stack[r + 1]
        op == OpOf(row)
    IN  IF op = kVariable THEN sample[Arg1(row) + 1]
        ELSE IF op = kConstant
             THEN IF Arg1(row) < Len(constants) THEN constants[Arg1(row) + 1]
                  ELSE junk
        ELSE IF op = kAddition
             THEN RowValue(stack, Arg1(row), sample, constants, junk)
                  + RowValue(stack, Arg2(row), sample, constants, junk)
        ELSE LET v == RowValue(stack, Arg1(row), sample, constants, junk)
             IN  IF v < 0 THEN -v ELSE v

\* an Eigen::ArrayXXd result: its shape, and either NaN in every entry or
\* the entries row by row
Array(rows, cols, values) ==
    [rows |-> rows, cols |-> cols, nan |-> FALSE, values |-> values]

\* Eigen::ArrayXXd::Constant(rows, cols, kNaN)
NaNArray(rows, cols) ==
    [rows |-> rows, cols |-> cols, nan |-> TRUE, values |-> <<>>]

\* evaluation_backend::Evaluate: one output value per sample (rows(x) by 1).
\* distress is the numeric condition the backend meets, if any; it raises
\* std::overflow_error or std::underflow_error for it.
Evaluate(stack, x, constants, junk, distress) ==
    IF distress # "none"
    THEN [threw |-> distress]
    ELSE [threw |-> "none",
          f |-> Array(Len(x), 1,
                      [i \in 1..Len(x) |->
                         <<IF Len(stack) = 0 THEN 0
                           ELSE RowValue(stack, Len(stack) - 1, x[i],
                                         constants, junk)>>])]

\* forward-mode derivative of row r with respect to input column j
\* (param_x_or_c) or to constant j (otherwise), at one sample
RECURSIVE RowDerivative(_, _, _, _, _, _, _)
RowDerivative(stack, r, sample, constants, junk, param_x_or_c, j) ==
    LET row == stack[r + 1]
        op == OpOf(row)
    IN  IF op = kVariable
        THEN IF param_x_or_c /\ Arg1(row) = j THEN 1 ELSE 0
        ELSE IF op = kConstant
        THEN IF ~param_x_or_c /\ Arg1(row) = j THEN 1 ELSE 0
        ELSE IF op = kAddition
        THEN RowDerivative(stack, Arg1(row), sample, constants, junk,
                           param_x_or_c, j)
             + RowDerivative(stack, Arg2(row), sample, constants, junk,
                             param_x_or_c, j)
        ELSE LET v == RowValue(stack, Arg1(row), sample, constants, junk)
                 d == RowDerivative(stack, Arg1(row), sample, constants, junk,
                                    param_x_or_c, j)
             IN  IF v < 0 THEN -d ELSE d

\* evaluation_backend::EvaluateWithDerivative: the values (rows(x) by 1) and
\* the Jacobian, rows(x) by cols(x) with respect to the inputs and rows(x)
\* by the number of constants with respect to the constants.
EvaluateWithDerivative(stack, x, constants, junk, distress, param_x_or_c) ==
    LET width == IF param_x_or_c THEN Len(x[1]) ELSE Len(constants)
    IN  IF distress # "none"
        THEN [threw |-> distress]
        ELSE [threw |-> "none",
              f |-> Evaluate(stack, x, constants, junk, distress).f,
              df |-> Array(Len(x), width,
                           [i \in 1..Len(x) |->
                              [j \in 1..width |->
                                 IF Len(stack) = 0 THEN 0
                                 ELSE RowDerivative(stack, Len(stack) - 1,
                                                    x[i], constants, junk,
                                                    param_x_or_c, j - 1)]])]

\* ------------------------------------------------------- sample inputs

V0 == Row(kVariable, 0, 0)
C0 == Row(kConstant, 0, 0)
C1 == Row(kConstant, 1, 1)
Add(a, b) == Row(kAddition, a, b)
Abs(a) == Row(kAbs, a, a)

\* the command arrays a caller installs: legal programs of up to MaxRows
\* rows with a dead row, constants the simplifier folds, constants left
\* with indices out of order, and none, one or two live constants
SamplePrograms ==
    { <<>>,
      <<V0, C1>>,
      <<C1, V0, Add(0, 1)>>,
      <<C0, C1, Add(0, 1)>>,
      <<C1, Abs(0), C0, Add(1, 2)>>,
      <<C1, V0, Add(0, 1), C0, Add(2, 3)>> }

CommandArrays ==
    {p \in SamplePrograms : Len(p) <= MaxRows /\ WellFormed(p)}

\* the constants vectors a caller injects: <<>>, <<3>>, <<3, 4>>, ...
ParamVectors == {[i \in 1..n |-> i + 2] : n \in 0..MaxParams}

\* the evaluation points: 2 samples by 1 feature, 1 sample by 2 features
XInputs == { <<<<2>>, <<3>>>>, <<<<1, 2>>>> }
NumRows(x) == Len(x)
NumCols(x) == Len(x[1])

FitnessValues == {5}
AgeValues == {0, 4}
\* what a read past the end of the constants vector may yield
JunkValues == {0, 7}
Distress == {"none", "overflow", "underflow"}

\* --------------------------------------------------------------- state

VARIABLES
    agraph,       \* the AGraph object: a record of its nine fields
    ref_out,      \* the caller holds the reference that
                  \* GetCommandArrayModifiable returned
    last_op,      \* the operation that ran last
    ret,          \* what it returned
    upd,          \* what update() did inside it, if it ran
    update_runs,  \* update() runs since the last write to command_array_
    other         \* a second AGraph object, once the caller has made one

vars == <<agraph, ref_out, last_op, ret, upd, update_runs, other>>

\* AGraph::AGraph(const bool use_simplification)
NewAGraph(use_simplification) ==
    [command_array_ |-> <<>>,
     simplified_command_array_ |-> <<>>,
     simplified_constants_ |-> <<>>,
     needs_opt_ |-> FALSE,
     fitness_ |-> kFitnessNotSet,
     fit_set_ |-> FALSE,
     genetic_age_ |-> 0,
     modified_ |-> FALSE,
     use_simplification_ |-> use_simplification]

\* ------------------------------------------------------ private methods

\* notify_agraph_modification forgetting fit_set_
notify_keeps_fit_set(g) ==
    [g EXCEPT !.fitness_ = kFitnessNotSet, !.modified_ = TRUE]

\* AGraph::notify_agraph_modification
notify_agraph_modification(g) ==
    [g EXCEPT !.fitness_ = kFitnessNotSet,
              !.fit_set_ = FALSE,
              !.modified_ = TRUE]

\* updateSimplifiedCommandArray taking the local strategy whatever
\* use_simplification_ says
simplify_ignores_flag(g, oracle_ok) ==
    [threw |-> FALSE,
     g |-> [g EXCEPT !.simplified_command_array_ =
                         SimplifyStack(g.command_array_)]]

\* AGraph::updateSimplifiedCommandArray: the object after the call, and
\* whether the backend call threw (the assignment then never happens).
updateSimplifiedCommandArray(g, oracle_ok) ==
    IF g.use_simplification_
    THEN LET r == PythonSimplifyStack(g.command_array_, oracle_ok)
         IN  IF r.threw THEN [threw |-> TRUE, g |-> g]
             ELSE [threw |-> FALSE,
                   g |-> [g EXCEPT !.simplified_command_array_ = r.stack]]
    ELSE [threw |-> FALSE,
          g |-> [g EXCEPT !.simplified_command_array_ =
                              SimplifyStack(g.command_array_)]]

\* AGraph::countAndUpdateConstants: the loop over the first n rows; the
\* result is the rewritten prefix and new_const_number.
RECURSIVE CountLoop(_, _)
CountLoop(stack, n) ==
    IF n = 0 THEN [stack |-> <<>>, count |-> 0]
    ELSE LET done == CountLoop(stack, n - 1)
         IN  IF OpOf(stack[n]) = kConstant
             THEN [stack |-> Append(done.stack,
                                    Row(kConstant, done.count, done.count)),
                   count |-> done.count + 1]
             ELSE [stack |-> Append(done.stack, stack[n]),
                   count |-> done.count]

\* countAndUpdateConstants incrementing before it writes the row
RECURSIVE CountLoopFromOne(_, _)
CountLoopFromOne(stack, n) ==
    IF n = 0 THEN [stack |-> <<>>, count |-> 0]
    ELSE LET done == CountLoopFromOne(stack, n - 1)
         IN  IF OpOf(stack[n]) = kConstant
             THEN [stack |-> Append(done.stack,
                                    Row(kConstant, done.count + 1,
                                        done.count + 1)),
                   count |-> done.count + 1]
             ELSE [stack |-> Append(done.stack, stack[n]),
                   count |-> done.count]

count_from_one(stack) == CountLoopFromOne(stack, Len(stack))

countAndUpdateConstants(stack) == CountLoop(stack, Len(stack))

\* performDefaultConstantResize keeping the values it already had
default_resize_keeps_values(g, const_number_input) ==
    [g EXCEPT !.simplified_constants_ =
                  [i \in 1..const_number_input |->
                     IF i <= Len(g.simplified_constants_)
                     THEN g.simplified_constants_[i] ELSE 1],
              !.needs_opt_ = IF const_number_input > 0 THEN TRUE ELSE @]

\* AGraph::performDefaultConstantResize
performDefaultConstantResize(g, const_number_input) ==
    [g EXCEPT !.simplified_constants_ = [i \in 1..const_number_input |-> 1],
              !.needs_opt_ = IF const_number_input > 0 THEN TRUE ELSE @]

\* resizeConstantsArrayIfNeeded taking the default path whenever the count
\* differs from the length
resize_unless_equal(g, const_number_input) ==
    IF const_number_input = Len(g.simplified_constants_) THEN g
    ELSE performDefaultConstantResize(g, const_number_input)

\* resizeConstantsArrayIfNeeded asking for optimisation on the
\* conservative path too
resize_flags_on_truncation(g, const_number_input) ==
    LET optimization_aggression == 0
        rows == Len(g.simplified_constants_)
    IN  IF optimization_aggression = 0 /\ const_number_input <= rows
        THEN [g EXCEPT !.simplified_constants_ =
                           SubSeq(@, 1, const_number_input),
                       !.needs_opt_ = TRUE]
        ELSE IF optimization_aggression = 1 /\ const_number_input = rows
        THEN g
        ELSE performDefaultConstantResize(g, const_number_input)

\* AGraph::resizeConstantsArrayIfNeeded
resizeConstantsArrayIfNeeded(g, const_number_input) ==
    LET optimization_aggression == 0
        rows == Len(g.simplified_constants_)
    IN  IF optimization_aggression = 0 /\ const_number_input <= rows
        THEN [g EXCEPT !.simplified_constants_ =
                           SubSeq(@, 1, const_number_input)]
        ELSE IF optimization_aggression = 1 /\ const_number_input = rows
        THEN g
        ELSE performDefaultConstantResize(g, const_number_input)

\* AGraph::updateConstantsArray
updateConstantsArray(g) ==
    LET c == countAndUpdateConstants(g.simplified_command_array_)
    IN  resizeConstantsArrayIfNeeded(
            [g EXCEPT !.simplified_command_array_ = c.stack], c.count)

\* what `upd` holds when update() did not run
NoUpdate == [ran |-> FALSE]

\* AGraph::update: the object after the call, whether an exception left it,
\* and the record of the run: the stages in the order they ran, whether the
\* oracle failed in it, and the length of the constants vector before it.
UpdateRecord(g, oracle_ok, stages) ==
    [ran |-> TRUE, stages |-> stages,
     oracle_failed |-> g.use_simplification_ /\ ~oracle_ok,
     rows_before |-> Len(g.simplified_constants_)]

\* update() reconciling the constants before it simplifies
update_constants_first(g, oracle_ok) ==
    LET b == updateConstantsArray(g)
        a == updateSimplifiedCommandArray(b, oracle_ok)
    IN  [threw |-> a.threw, g |-> [a.g EXCEPT !.modified_ = FALSE],
         upd |-> UpdateRecord(g, oracle_ok,
                              <<"renumber", "resize", "simplify">>)]

\* update() leaving modified_ set
update_stays_modified(g, oracle_ok) ==
    LET a == updateSimplifiedCommandArray(g, oracle_ok)
    IN  [threw |-> a.threw, g |-> updateConstantsArray(a.g),
         upd |-> UpdateRecord(g, oracle_ok,
                              <<"simplify", "renumber", "resize">>)]

\* update() marking the fitness as set for the recomputed state
update_sets_fit_set(g, oracle_ok) ==
    LET a == updateSimplifiedCommandArray(g, oracle_ok)
        b == updateConstantsArray(a.g)
    IN  [threw |-> a.threw,
         g |-> [b EXCEPT !.modified_ = FALSE, !.fit_set_ = TRUE],
         upd |-> UpdateRecord(g, oracle_ok,
                              <<"simplify", "renumber", "resize">>)]

update(g, oracle_ok) ==
    LET a == updateSimplifiedCommandArray(g, oracle_ok)
        b == updateConstantsArray(a.g)
    IN  IF a.threw
        THEN [threw |-> TRUE, g |-> a.g,
              upd |-> UpdateRecord(g, oracle_ok, <<"simplify">>)]
        ELSE [threw |-> FALSE, g |-> [b EXCEPT !.modified_ = FALSE],
              upd |-> UpdateRecord(g, oracle_ok,
                                   <<"simplify", "renumber", "resize">>)]

\* the outcomes of the oracle an accessor entered on g can meet: it is asked
\* only by an update() of an object built with use_simplification
OracleOutcomes(g) ==
    IF g.modified_ /\ g.use_simplification_ THEN BOOLEAN ELSE {TRUE}

\* the values an evaluation of g can read for a constant: its constants
\* vector, or anything when a row indexes past its end
ConstantReads(g) ==
    IF countAndUpdateConstants(g.simplified_command_array_).count
           > Len(g.simplified_constants_)
    THEN JunkValues ELSE {0}

\* the numeric conditions an evaluation of g can meet: an empty program
\* computes nothing, any other may overflow or underflow
DistressOutcomes(g) ==
    IF Len(g.simplified_command_array_) = 0 THEN {"none"} ELSE Distress

\* the entry of every derived accessor: if (modified_) update();
Refresh(g, oracle_ok) ==
    IF g.modified_ THEN update(g, oracle_ok)
    ELSE [threw |-> FALSE, g |-> g, upd |-> NoUpdate]

\* ------------------------------------------------------------ the machine

Void == [kind |-> "void"]
Thrown == [kind |-> "exception"]

\* the caller holds no second object yet
NoOther == [exists |-> FALSE]

Init ==
    /\ \E use_simplification \in BOOLEAN :
           agraph = NewAGraph(use_simplification)
    /\ ref_out = FALSE
    /\ last_op = "AGraph"
    /\ ret = Void
    /\ upd = NoUpdate
    /\ update_runs = 0
    /\ other = NoOther

\* an operation that leaves the object alone and returns value
Read(op, value) ==
    /\ last_op' = op
    /\ ret' = value
    /\ upd' = NoUpdate
    /\ UNCHANGED <<agraph, ref_out, update_runs, other>>

\* an operation that changes fields without touching command_array_
Change(op, g) ==
    /\ agraph' = g
    /\ last_op' = op
    /\ ret' = Void
    /\ upd' = NoUpdate
    /\ UNCHANGED <<ref_out, update_runs, other>>

\* a derived accessor: r is the outcome of its entry Refresh, value what it
\* returns when the refresh did not throw
Serve(op, r, value) ==
    /\ agraph' = r.g
    /\ last_op' = op
    /\ ret' = IF r.threw THEN Thrown ELSE value
    /\ upd' = r.upd
    /\ update_runs' = IF r.upd.ran /\ update_runs < MaxUpdateRuns
                      THEN update_runs + 1 ELSE update_runs
    /\ UNCHANGED <<ref_out, other>>

\* AGraph::GetCommandArray
GetCommandArray ==
    Read("GetCommandArray", [kind |-> "stack", stack |-> agraph.command_array_])

\* AGraph::GetCommandArrayModifiable
GetCommandArrayModifiable ==
    /\ agraph' = notify_agraph_modification(agraph)
    /\ ref_out' = TRUE
    /\ last_op' = "GetCommandArrayModifiable"
    /\ ret' = [kind |-> "ref"]
    /\ upd' = NoUpdate
    /\ update_runs' = 0
    /\ UNCHANGED other

\* the caller assigns through the reference GetCommandArrayModifiable gave
WriteThroughReference ==
    /\ ref_out
    /\ \E command_array \in CommandArrays :
           agraph' = [agraph EXCEPT !.command_array_ = command_array]
    /\ last_op' = "WriteThroughReference"
    /\ ret' = Void
    /\ upd' = NoUpdate
    /\ update_runs' = 0
    /\ UNCHANGED <<ref_out, other>>

\* AGraph::SetCommandArray, the caller's arrays drawn from command_arrays
SetCommandArrayOf(command_arrays) ==
    /\ \E command_array \in command_arrays :
           agraph' = notify_agraph_modification(
                         [agraph EXCEPT !.command_array_ = command_array])
    /\ last_op' = "SetCommandArray"
    /\ ret' = Void
    /\ upd' = NoUpdate
    /\ update_runs' = 0
    /\ UNCHANGED <<ref_out, other>>

\* AGraph::SetCommandArray
SetCommandArray == SetCommandArrayOf(CommandArrays)

\* AGraph::GetFitness
GetFitness == Read("GetFitness", [kind |-> "double", val |-> agraph.fitness_])

\* AGraph::SetFitness
SetFitness ==
    \E fitness \in FitnessValues :
        Change("SetFitness",
               [agraph EXCEPT !.fitness_ = fitness, !.fit_set_ = TRUE])

\* AGraph::IsFitnessSet
IsFitnessSet == Read("IsFitnessSet", [kind |-> "bool", val |-> agraph.fit_set_])

\* AGraph::SetFitnessStatus
SetFitnessStatus ==
    \E val \in BOOLEAN :
        Change("SetFitnessStatus", [agraph EXCEPT !.fit_set_ = val])

\* AGraph::SetGeneticAge, the caller's ages drawn from ages
SetGeneticAgeOf(ages) ==
    \E age \in ages :
        Change("SetGeneticAge", [agraph EXCEPT !.genetic_age_ = age])

\* AGraph::SetGeneticAge
SetGeneticAge == SetGeneticAgeOf(AgeValues)

\* AGraph::GetGeneticAge
GetGeneticAge ==
    Read("GetGeneticAge", [kind |-> "int", val |-> agraph.genetic_age_])

\* a GetUtilizedCommands that enters like a derived accessor and reads the
\* simplified command array
utilized_after_update ==
    \E oracle_ok \in OracleOutcomes(agraph) :
        LET r == Refresh(agraph, oracle_ok)
        IN  Serve("GetUtilizedCommands", r,
                  [kind |-> "mask",
                   mask |-> [i \in 1..Len(r.g.simplified_command_array_) |->
                               (i - 1) \in UtilizedRows(
                                   r.g.simplified_command_array_)]])

\* AGraph::GetUtilizedCommands
GetUtilizedCommands ==
    Read("GetUtilizedCommands",
         [kind |-> "mask",
          mask |-> [i \in 1..Len(agraph.command_array_) |->
                      (i - 1) \in UtilizedRows(agraph.command_array_)]])

\* AGraph::NeedsLocalOptimization
NeedsLocalOptimization ==
    \E oracle_ok \in OracleOutcomes(agraph) :
        LET r == Refresh(agraph, oracle_ok)
        IN  Serve("NeedsLocalOptimization", r,
                  [kind |-> "bool", val |-> r.g.needs_opt_])

\* AGraph::GetNumberLocalOptimizationParams
GetNumberLocalOptimizationParams ==
    \E oracle_ok \in OracleOutcomes(agraph) :
        LET r == Refresh(agraph, oracle_ok)
        IN  Serve("GetNumberLocalOptimizationParams", r,
                  [kind |-> "int", val |-> Len(r.g.simplified_constants_)])

\* a setter that stores the constants and leaves needs_opt_ as it finds it
set_params_keeps_flag(op, param_vectors) ==
    \E params \in param_vectors :
        /\ agraph' = [agraph EXCEPT !.simplified_constants_ = params]
        /\ last_op' = op
        /\ ret' = [kind |-> "void", params |-> params]
        /\ upd' = NoUpdate
        /\ UNCHANGED <<ref_out, update_runs, other>>

\* the body shared by the three SetLocalOptimizationParams overloads, the
\* caller's vectors drawn from param_vectors
SetParamsOf(op, param_vectors) ==
    \E params \in param_vectors :
        /\ agraph' = [agraph EXCEPT !.simplified_constants_ = params,
                                    !.needs_opt_ = FALSE]
        /\ last_op' = op
        /\ ret' = [kind |-> "void", params |-> params]
        /\ upd' = NoUpdate
        /\ UNCHANGED <<ref_out, update_runs, other>>

SetParams(op) == SetParamsOf(op, ParamVectors)

\* AGraph::SetLocalOptimizationParams
SetLocalOptimizationParams == SetParams("SetLocalOptimizationParams")

\* AGraph::SetLocalOptimizationParamsV
SetLocalOptimizationParamsV == SetParams("SetLocalOptimizationParamsV")

\* AGraph::SetLocalOptimizationParamsA
SetLocalOptimizationParamsA == SetParams("SetLocalOptimizationParamsA")

\* AGraph::GetLocalOptimizationParams
GetLocalOptimizationParams ==
    Read("GetLocalOptimizationParams",
         [kind |-> "params", val |-> agraph.simplified_constants_])

\* AGraph::EvaluateEquationAt, after its entry refresh: the try block and
\* the two catch handlers
EvaluateEquationAtBody(g, x, junk, distress) ==
    LET e == Evaluate(g.simplified_command_array_, x,
                      g.simplified_constants_, junk, distress)
    IN  IF e.threw = "none" THEN e.f
        ELSE NaNArray(NumRows(x), NumCols(x))

\* AGraph::EvaluateEquationAt
EvaluateEquationAt ==
    \E oracle_ok \in OracleOutcomes(agraph), x \in XInputs :
        LET r == Refresh(agraph, oracle_ok)
        IN  \E junk \in ConstantReads(r.g), distress \in DistressOutcomes(r.g) :
                Serve("EvaluateEquationAt", r,
                      [kind |-> "array", x |-> x,
                       f |-> EvaluateEquationAtBody(r.g, x, junk, distress)])

\* the try block and the catch handlers shared, line for line, by
\* EvaluateEquationWithXGradientAt and EvaluateEquationWithLocalOptGradientAt
EvaluateWithGradientBody(g, x, junk, distress, param_x_or_c) ==
    LET e == EvaluateWithDerivative(g.simplified_command_array_, x,
                                    g.simplified_constants_, junk, distress,
                                    param_x_or_c)
        nan_array == NaNArray(NumRows(x), NumCols(x))
    IN  IF e.threw = "none" THEN [f |-> e.f, df |-> e.df]
        ELSE [f |-> nan_array, df |-> nan_array]

\* AGraph::EvaluateEquationWithXGradientAt
EvaluateEquationWithXGradientAt ==
    \E oracle_ok \in OracleOutcomes(agraph), x \in XInputs :
        LET r == Refresh(agraph, oracle_ok)
        IN  \E junk \in ConstantReads(r.g), distress \in DistressOutcomes(r.g) :
                LET p == EvaluateWithGradientBody(r.g, x, junk, distress, TRUE)
                IN  Serve("EvaluateEquationWithXGradientAt", r,
                          [kind |-> "pair", x |-> x, f |-> p.f, df |-> p.df])

\* AGraph::EvaluateEquationWithLocalOptGradientAt
EvaluateEquationWithLocalOptGradientAt ==
    \E oracle_ok \in OracleOutcomes(agraph), x \in XInputs :
        LET r == Refresh(agraph, oracle_ok)
        IN  \E junk \in ConstantReads(r.g), distress \in DistressOutcomes(r.g) :
                LET p == EvaluateWithGradientBody(r.g, x, junk, distress, FALSE)
                IN  Serve("EvaluateEquationWithLocalOptGradientAt", r,
                          [kind |-> "pair", x |-> x, f |-> p.f, df |-> p.df])

\* string_generation::GetFormattedString: the rendering collaborator, kept
\* as the triple it renders
FormattedString(format, stack, constants) ==
    [kind |-> "string", format |-> format, stack |-> stack,
     constants |-> constants]

Formats == {"console"}

\* AGraph::GetFormattedString with raw = true
GetFormattedStringRaw ==
    \E format \in Formats :
        Read("GetFormattedStringRaw",
             FormattedString(format, agraph.command_array_, <<>>))

\* AGraph::GetFormattedString with raw = false
GetFormattedString ==
    \E oracle_ok \in OracleOutcomes(agraph), format \in Formats :
        LET r == Refresh(agraph, oracle_ok)
        IN  Serve("GetFormattedString", r,
                  FormattedString(format, r.g.simplified_command_array_,
                                  r.g.simplified_constants_))

\* AGraph::GetConsoleString (and operator<<)
GetConsoleString ==
    \E oracle_ok \in OracleOutcomes(agraph) :
        LET r == Refresh(agraph, oracle_ok)
        IN  Serve("GetConsoleString", r,
                  FormattedString("console", r.g.simplified_command_array_,
                                  r.g.simplified_constants_))

\* AGraph::GetComplexity
GetComplexity ==
    \E oracle_ok \in OracleOutcomes(agraph) :
        LET r == Refresh(agraph, oracle_ok)
        IN  Serve("GetComplexity", r,
                  [kind |-> "int", val |-> Len(r.g.simplified_command_array_)])

\* ------------------------------------------------------ a second object

HasOther == other # NoOther

\* (a != b).count() over the first rows rows: the number of coefficients
\* at which the two arrays differ
NotEqualCount(a, b, rows) ==
    Cardinality({c \in (1..rows) \X (1..kInitialCommandCols) :
                     a[c[1]][c[2]] # b[c[1]][c[2]]})

\* a failed assertion ends the process
Aborted == [kind |-> "abort"]

\* what (command_array_ != agraph.GetCommandArray()).count() can give.
\* Arrays of one size: the count of differing coefficients.  Arrays of
\* different sizes break the precondition of the coefficient-wise
\* comparison: a build with assertions aborts; a build without them
\* visits the coefficients of an expression of the size of the argument
\* and pairs them with whatever command_array_ holds or is followed by in
\* memory, so the count is any number that many coefficients allow.
DistanceOutcomes(command_array, argument) ==
    IF Len(command_array) = Len(argument)
    THEN {[kind |-> "int",
           val |-> NotEqualCount(command_array, argument, Len(argument))]}
    ELSE {Aborted} \cup
         {[kind |-> "int", val |-> v] :
              v \in 0..(kInitialCommandCols * Len(argument))}

\* an individual a caller built by installing a command array
Installed(command_array) ==
    notify_agraph_modification(
        [NewAGraph(FALSE) EXCEPT !.command_array_ = command_array])

\* the objects Distance is called with: the second object when the caller
\* has one, else an individual holding any command array
DistanceArguments ==
    IF HasOther THEN {other} ELSE {Installed(p) : p \in CommandArrays}

\* AGraph::Distance
Distance ==
    \E argument \in DistanceArguments :
        \E d \in DistanceOutcomes(agraph.command_array_,
                                  argument.command_array_) :
            Read("Distance", [kind |-> d.kind,
                              val |-> IF d = Aborted THEN -1 ELSE d.val,
                              argument |-> argument.command_array_])

\* AGraph::Distance called on the second object with agraph as argument
OtherDistance ==
    /\ HasOther
    /\ \E d \in DistanceOutcomes(other.command_array_,
                                  agraph.command_array_) :
           Read("OtherDistance", [kind |-> d.kind,
                                  val |-> IF d = Aborted THEN -1 ELSE d.val,
                                  argument |-> agraph.command_array_])

\* no call has aborted
Running == ret.kind # "abort"

\* a copy constructor that leaves modified_ as a new object has it
copy_drops_modified(g) ==
    [command_array_ |-> g.command_array_,
     simplified_command_array_ |-> g.simplified_command_array_,
     simplified_constants_ |-> g.simplified_constants_,
     needs_opt_ |-> g.needs_opt_,
     fitness_ |-> g.fitness_,
     fit_set_ |-> g.fit_set_,
     genetic_age_ |-> g.genetic_age_,
     modified_ |-> FALSE,
     use_simplification_ |-> g.use_simplification_]

\* AGraph::AGraph(const AGraph &agraph)
AGraphCopy(g) ==
    [command_array_ |-> g.command_array_,
     simplified_command_array_ |-> g.simplified_command_array_,
     simplified_constants_ |-> g.simplified_constants_,
     needs_opt_ |-> g.needs_opt_,
     fitness_ |-> g.fitness_,
     fit_set_ |-> g.fit_set_,
     genetic_age_ |-> g.genetic_age_,
     modified_ |-> g.modified_,
     use_simplification_ |-> g.use_simplification_]

\* AGraph::Copy: the caller keeps the clone as its second object
Copy ==
    /\ other' = AGraphCopy(agraph)
    /\ last_op' = "Copy"
    /\ ret' = [kind |-> "agraph"]
    /\ upd' = NoUpdate
    /\ UNCHANGED <<agraph, ref_out, update_runs>>

\* AGraphState: the tuple of the nine fields
AGraphState(g) ==
    <<g.command_array_, g.simplified_command_array_,
      g.simplified_constants_, g.needs_opt_, g.fitness_, g.fit_set_,
      g.genetic_age_, g.modified_, g.use_simplification_>>

\* AGraph::DumpState
DumpState ==
    Read("DumpState", [kind |-> "state", state |-> AGraphState(agraph)])

\* a restoring constructor that reads needs_opt_ and fit_set_ from each
\* other's slot
from_state_swaps_flags(state) ==
    [command_array_ |-> state[1],
     simplified_command_array_ |-> state[2],
     simplified_constants_ |-> state[3],
     needs_opt_ |-> state[6],
     fitness_ |-> state[5],
     fit_set_ |-> state[4],
     genetic_age_ |-> state[7],
     modified_ |-> state[8],
     use_simplification_ |-> state[9]]

\* AGraph::AGraph(const AGraphState &state); std::get<i> is state[i + 1]
AGraphFromState(state) ==
    [command_array_ |-> state[1],
     simplified_command_array_ |-> state[2],
     simplified_constants_ |-> state[3],
     needs_opt_ |-> state[4],
     fitness_ |-> state[5],
     fit_set_ |-> state[6],
     genetic_age_ |-> state[7],
     modified_ |-> state[8],
     use_simplification_ |-> state[9]]

\* the caller constructs its second object from the state DumpState just
\* returned
RestoreFromState ==
    /\ last_op = "DumpState"
    /\ other' = AGraphFromState(ret.state)
    /\ last_op' = "RestoreFromState"
    /\ ret' = [kind |-> "agraph"]
    /\ upd' = NoUpdate
    /\ UNCHANGED <<agraph, ref_out, update_runs>>

\* what the caller of an object and its clone installs in either
CloneArrays == {<<>>, <<C1, Abs(0), C0, Add(1, 2)>>}
CloneAges == {4}
CloneParams == {<<3>>}

\* an operation called on the second object: it becomes g
OnOther(op, g, value, u) ==
    /\ HasOther
    /\ other' = g
    /\ last_op' = op
    /\ ret' = value
    /\ upd' = u
    /\ UNCHANGED <<agraph, ref_out, update_runs>>

\* AGraph::SetCommandArray on the second object
OtherSetCommandArray ==
    \E command_array \in CloneArrays :
        OnOther("Other.SetCommandArray",
                notify_agraph_modification(
                    [other EXCEPT !.command_array_ = command_array]),
                Void, NoUpdate)

\* AGraph::GetComplexity on the second object
OtherGetComplexity ==
    /\ HasOther
    /\ \E oracle_ok \in OracleOutcomes(other) :
           LET r == Refresh(other, oracle_ok)
           IN  OnOther("Other.GetComplexity", r.g,
                       IF r.threw THEN Thrown
                       ELSE [kind |-> "int",
                             val |-> Len(r.g.simplified_command_array_)],
                       r.upd)

\* AGraph::SetFitness on the second object
OtherSetFitness ==
    \E fitness \in FitnessValues :
        OnOther("Other.SetFitness",
                [other EXCEPT !.fitness_ = fitness, !.fit_set_ = TRUE],
                Void, NoUpdate)

\* AGraph::SetGeneticAge on the second object
OtherSetGeneticAge ==
    \E age \in CloneAges :
        OnOther("Other.SetGeneticAge", [other EXCEPT !.genetic_age_ = age],
                Void, NoUpdate)

\* AGraph::SetLocalOptimizationParams on the second object
OtherSetLocalOptimizationParams ==
    \E params \in CloneParams :
        OnOther("Other.SetLocalOptimizationParams",
                [other EXCEPT !.simplified_constants_ = params,
                              !.needs_opt_ = FALSE],
                [kind |-> "void", params |-> params], NoUpdate)

\* ------------------------------------------------------------ the groups

\* the operations that write command_array_ or hand out write access to it
WriteOps ==
    {"SetCommandArray", "GetCommandArrayModifiable", "WriteThroughReference"}

\* the operations that read the derived state
DerivedAccessors ==
    {"NeedsLocalOptimization", "GetNumberLocalOptimizationParams",
     "EvaluateEquationAt", "EvaluateEquationWithXGradientAt",
     "EvaluateEquationWithLocalOptGradientAt", "GetFormattedString",
     "GetConsoleString", "GetComplexity"}

WriteStep ==
    \/ GetCommandArrayModifiable
    \/ WriteThroughReference
    \/ SetCommandArray

DerivedStep ==
    \/ NeedsLocalOptimization
    \/ GetNumberLocalOptimizationParams
    \/ EvaluateEquationAt
    \/ EvaluateEquationWithXGradientAt
    \/ EvaluateEquationWithLocalOptGradientAt
    \/ GetFormattedString
    \/ GetConsoleString
    \/ GetComplexity

ParamsStep ==
    \/ SetLocalOptimizationParams
    \/ SetLocalOptimizationParamsV
    \/ SetLocalOptimizationParamsA
    \/ GetLocalOptimizationParams

FitnessStep ==
    \/ GetFitness
    \/ SetFitness
    \/ IsFitnessSet
    \/ SetFitnessStatus

MetadataStep ==
    \/ GetCommandArray
    \/ SetGeneticAge
    \/ GetGeneticAge
    \/ GetUtilizedCommands
    \/ GetFormattedStringRaw

\* every operation of one object on its own, in any order; Distance, Copy,
\* DumpState and the construction from a dumped state, which bring in a
\* second object, are stepped in NextDistance, NextMeta and NextClone
Next == WriteStep \/ DerivedStep \/ ParamsStep \/ FitnessStep \/ MetadataStep

Spec == Init /\ [][Next]_vars

\* the cache protocol: writes, derived accessors and the constants vector
\* (fitness and age stay as constructed)
NextCache == WriteStep \/ DerivedStep \/ ParamsStep

SpecCache == Init /\ [][NextCache]_vars

\* the fitness protocol: writes, derived accessors and the fitness operations
NextFitness == WriteStep \/ DerivedStep \/ FitnessStep

SpecFitness == Init /\ [][NextFitness]_vars

\* structural distance: two objects that differ by writes and recomputation;
\* nothing follows an aborted call
NextDistance ==
    \/ Running /\ SetCommandArray
    \/ Running /\ GetComplexity
    \/ Running /\ Copy
    \/ Running /\ Distance
    \/ Running /\ OtherDistance

\* an object created empty and driven by replacements of its command array
\* and by derived accessors only
NextReplace == SetCommandArray \/ DerivedStep

SpecReplace == Init /\ [][NextReplace]_vars

SpecDistance == Init /\ [][NextDistance]_vars

\* the operations that never touch the derived state, among writes, a
\* derived accessor and injected constants that bring the object into every
\* stale and fresh state; nothing follows an aborted call
NextMeta ==
    \/ Running /\ SetCommandArray
    \/ Running /\ GetComplexity
    \/ Running /\ SetLocalOptimizationParams
    \/ Running /\ GetLocalOptimizationParams
    \/ Running /\ GetFitness
    \/ Running /\ SetFitness
    \/ Running /\ IsFitnessSet
    \/ Running /\ SetFitnessStatus
    \/ Running /\ GetCommandArray
    \/ Running /\ SetGeneticAge
    \/ Running /\ GetGeneticAge
    \/ Running /\ GetUtilizedCommands
    \/ Running /\ GetFormattedStringRaw
    \/ Running /\ Distance

SpecMeta == Init /\ [][NextMeta]_vars

\* cloning: an object and its copy or restored snapshot, each written,
\* recomputed, scored, aged and given constants on its own
OriginalStep ==
    \/ SetCommandArrayOf(CloneArrays)
    \/ GetComplexity
    \/ SetFitness
    \/ SetGeneticAgeOf(CloneAges)
    \/ SetParamsOf("SetLocalOptimizationParams", CloneParams)

CloneStep ==
    \/ OtherSetCommandArray
    \/ OtherGetComplexity
    \/ OtherSetFitness
    \/ OtherSetGeneticAge
    \/ OtherSetLocalOptimizationParams

NextClone ==
    OriginalStep \/ CloneStep \/ Copy \/ DumpState \/ RestoreFromState

SpecClone == Init /\ [][NextClone]_vars

\* ------------------------------------------ the constants pass on its own

\* longest simplified command array handed to the constants pass
MaxSimplifiedRows == 3

\* rows a simplifier may leave: constants carrying any indices, and
\* operators over earlier rows
SimplifiedRowChoices ==
    {V0, C0, Row(kConstant, 2, 1), Abs(0), Add(0, 1)}

SimplifiedArrays ==
    {s \in UNION {[1..n -> SimplifiedRowChoices] : n \in 0..MaxSimplifiedRows} :
         WellFormed(s)}

\* inside update(): updateSimplifiedCommandArray has just stored its result
InitConstantsPass ==
    /\ \E s \in SimplifiedArrays, c \in ParamVectors :
           agraph = [NewAGraph(FALSE) EXCEPT
                         !.simplified_command_array_ = s,
                         !.simplified_constants_ = c,
                         !.modified_ = TRUE]
    /\ ref_out = FALSE
    /\ last_op = "updateSimplifiedCommandArray"
    /\ ret = Void
    /\ upd = NoUpdate
    /\ update_runs = 0
    /\ other = NoOther

\* the call of updateConstantsArray that follows in update(); ret keeps the
\* array it was given and the count countAndUpdateConstants returned
UpdateConstantsArrayStep ==
    /\ last_op = "updateSimplifiedCommandArray"
    /\ agraph' = updateConstantsArray(agraph)
    /\ last_op' = "updateConstantsArray"
    /\ ret' = [kind |-> "count",
               input |-> agraph.simplified_command_array_,
               val |-> countAndUpdateConstants(
                           agraph.simplified_command_array_).count]
    /\ upd' = UpdateRecord(agraph, TRUE, <<"renumber", "resize">>)
    /\ UNCHANGED <<ref_out, update_runs, other>>

SpecConstantsPass == InitConstantsPass /\ [][UpdateConstantsArrayStep]_vars

\* -------------------------------------------------------------- properties

\* the simplified command array the configured strategy yields for stack,
\* before renumbering: the local strategy, or the thorough one, which is the
\* oracle's answer or, when the oracle failed, the local strategy's
StrategyResults(g) ==
    IF g.use_simplification_
    THEN {OracleSimplify(g.command_array_), SimplifyStack(g.command_array_)}
    ELSE {SimplifyStack(g.command_array_)}

\* the rows of stack that are constant terminals (1-based positions)
ConstantRows(stack) == {i \in 1..Len(stack) : OpOf(stack[i]) = kConstant}

\* post is pre with its i-th constant row (i = 0, 1, ...) holding i in both
\* operand fields and every other row as it was
Renumbered(pre, post) ==
    /\ Len(post) = Len(pre)
    /\ \A i \in 1..Len(pre) :
           IF i \in ConstantRows(pre)
           THEN post[i] = Row(kConstant,
                              Cardinality({j \in ConstantRows(pre) : j < i}),
                              Cardinality({j \in ConstantRows(pre) : j < i}))
           ELSE post[i] = pre[i]

\* C1: right after SetCommandArray and right after GetCommandArrayModifiable
\* the object is stale (modified_), fit_set_ is false and fitness_ is the
\* unset sentinel, whatever the state before the call.
C1_WriteMarksStaleAndClearsFitness ==
    last_op \in {"SetCommandArray", "GetCommandArrayModifiable"}
        => /\ agraph.modified_
           /\ ~agraph.fit_set_
           /\ agraph.fitness_ = kFitnessNotSet

\* C1 witness: write access is handed out for an object that had been
\* recomputed (its cache is non-empty) and the flags read as claimed
C1_Witness ==
    /\ last_op = "GetCommandArrayModifiable"
    /\ Len(agraph.simplified_command_array_) > 0
    /\ agraph.modified_ /\ ~agraph.fit_set_
    /\ agraph.fitness_ = kFitnessNotSet

\* C2: in every reachable state where the object is fresh (modified_ false)
\* the simplified command array is the configured strategy applied to the
\* current raw command array followed by constant renumbering, including
\* after writes through the reference GetCommandArrayModifiable returned.
C2_FreshCacheMatchesRaw ==
    ~agraph.modified_
        => \E pre \in StrategyResults(agraph) :
               Renumbered(pre, agraph.simplified_command_array_)

\* the value in ret is the one the last accessor computes from the simplified
\* command array and the constants of g
C3_ServedFrom(g) ==
    LET stack == g.simplified_command_array_
        constants == g.simplified_constants_
    IN  CASE last_op = "NeedsLocalOptimization" -> ret.val = g.needs_opt_
          [] last_op = "GetNumberLocalOptimizationParams" ->
                 ret.val = Cardinality(ConstantRows(stack))
          [] last_op = "GetComplexity" -> ret.val = Len(stack)
          [] last_op \in {"GetFormattedString", "GetConsoleString"} ->
                 ret.stack = stack /\ ret.constants = constants
          [] OTHER ->
                 \/ ret.f.nan
                 \/ ret.f = Evaluate(stack, ret.x, constants, 0, "none").f

\* C3: a derived accessor entered on a stale object runs simplification,
\* renumbering and constants reconciliation in that order, leaves the object
\* fresh, and serves its result from the simplified form of the current raw
\* command array.
C3_StaleAccessorRecomputesThenServes ==
    (last_op \in DerivedAccessors /\ upd.ran)
        => /\ upd.stages = <<"simplify", "renumber", "resize">>
           /\ ~agraph.modified_
           /\ ret # Thrown
           /\ \E pre \in StrategyResults(agraph) :
                  Renumbered(pre, agraph.simplified_command_array_)
           /\ Len(agraph.simplified_constants_)
                  = Cardinality(ConstantRows(agraph.simplified_command_array_))
           /\ C3_ServedFrom(agraph)

\* C3 witness: an evaluation that recomputed a program whose constant the
\* simplifier left with index 1 and returned values
C3_Witness ==
    /\ last_op = "EvaluateEquationAt" /\ upd.ran
    /\ ~ret.f.nan
    /\ agraph.command_array_ = <<C1, V0, Add(0, 1)>>
    /\ agraph.simplified_command_array_ = <<C0, V0, Add(0, 1)>>

\* C4: between two consecutive writes update() runs at most once, and a write
\* alone runs no update and leaves the simplified command array and the
\* constants vector as they were.
C4_UpdateAtMostOncePerWrite ==
    /\ [](update_runs <= 1)
    /\ [][last_op' \in WriteOps
            => /\ ~upd'.ran
               /\ update_runs' = 0
               /\ agraph'.simplified_command_array_
                      = agraph.simplified_command_array_
               /\ agraph'.simplified_constants_
                      = agraph.simplified_constants_]_vars

\* C4 witness: a derived accessor that found the object fresh after the one
\* update of this period and did not run another
C4_Witness ==
    /\ last_op \in DerivedAccessors
    /\ ~upd.ran
    /\ update_runs = 1
    /\ Len(agraph.simplified_command_array_) > 0

\* C5: fit_set_ goes from false to true only in SetFitness or
\* SetFitnessStatus; no derived accessor and no recomputation sets it.
C5_FitSetOnlyBySetters ==
    [][(~agraph.fit_set_ /\ agraph'.fit_set_)
         => last_op' \in {"SetFitness", "SetFitnessStatus"}]_vars

\* C5 witness: after a replacement of the command array a derived accessor
\* recomputed and the fitness still reads unset
C5_Witness ==
    /\ last_op \in DerivedAccessors /\ upd.ran
    /\ Len(agraph.command_array_) > 0
    /\ ~agraph.fit_set_
    /\ agraph.fitness_ = kFitnessNotSet

\* the constant count of the recomputed simplified command array
NewCount(g) == Cardinality(ConstantRows(g.simplified_command_array_))

\* this step is a derived accessor running update()
Recomputes == last_op' \in DerivedAccessors /\ upd'.ran /\ agraph.modified_

\* C6: in a recomputation whose constant count k is at most the length m of
\* the constants vector, the vector becomes its first k values in order and
\* needs_opt_ keeps its value.
C6_ConservativeResizeTruncates ==
    [][(Recomputes /\ NewCount(agraph') <= Len(agraph.simplified_constants_))
         => /\ agraph'.simplified_constants_
                   = SubSeq(agraph.simplified_constants_, 1, NewCount(agraph'))
            /\ agraph'.needs_opt_ = agraph.needs_opt_]_vars

\* C6 witness: a recomputation cut a longer vector the caller had set down
\* to one entry, the caller's first value, and did not ask for optimization
C6_Witness ==
    /\ last_op \in DerivedAccessors /\ upd.ran
    /\ upd.rows_before = 2
    /\ agraph.simplified_constants_ = <<3>>
    /\ ~agraph.needs_opt_

\* C7: in a recomputation whose constant count k exceeds the length m of the
\* constants vector, the vector becomes k entries equal to 1.0 and needs_opt_
\* becomes true.
C7_DefaultResizeResets ==
    [][(Recomputes /\ NewCount(agraph') > Len(agraph.simplified_constants_))
         => /\ agraph'.simplified_constants_
                   = [i \in 1..NewCount(agraph') |-> 1]
            /\ agraph'.needs_opt_]_vars

\* C7 witness: a recomputation grew a one-entry vector to two entries, both
\* 1.0, and asked for optimization
C7_Witness ==
    /\ last_op \in DerivedAccessors /\ upd.ran
    /\ upd.rows_before = 1
    /\ agraph.simplified_constants_ = <<1, 1>>
    /\ agraph.needs_opt_

\* C8: after the constants pass the i-th constant row of the simplified
\* command array (i = 0..k-1) holds i in both operand fields, so the indices
\* are exactly 0..k-1, the returned count is k, and every other row is as
\* the simplifier left it.
C8_RenumberingIsContiguous ==
    last_op = "updateConstantsArray"
        => LET pre == ret.input
               post == agraph.simplified_command_array_
               k == Cardinality(ConstantRows(pre))
           IN  /\ Renumbered(pre, post)
               /\ {Arg1(post[i]) : i \in ConstantRows(post)} = 0..(k - 1)
               /\ {Arg2(post[i]) : i \in ConstantRows(post)} = 0..(k - 1)
               /\ ret.val = k
               /\ Len(agraph.simplified_constants_) = k

\* C8 witness: two constants left with indices 2 and 0 around an operator
\* row were renumbered 0 and 1
C8_Witness ==
    /\ last_op = "updateConstantsArray"
    /\ ret.input = <<Row(kConstant, 2, 1), Abs(0), C0>>
    /\ agraph.simplified_command_array_ = <<C0, Abs(0), C1>>
    /\ ret.val = 2

\* C9: when the oracle fails in a recomputation of an object built with the
\* thorough strategy, no exception leaves the accessor, the simplified
\* command array is the local strategy's, the pipeline completes and the
\* object ends fresh.
C9_OracleFailureFallsBack ==
    (last_op \in DerivedAccessors /\ upd.ran /\ upd.oracle_failed)
        => /\ ret # Thrown
           /\ upd.stages = <<"simplify", "renumber", "resize">>
           /\ ~agraph.modified_
           /\ Renumbered(SimplifyStack(agraph.command_array_),
                         agraph.simplified_command_array_)

\* C9 witness: the oracle failed on a program it would have folded to one
\* constant, and the four rows of the local strategy are served
C9_Witness ==
    /\ last_op = "GetComplexity" /\ upd.ran /\ upd.oracle_failed
    /\ agraph.use_simplification_
    /\ agraph.command_array_ = <<C1, Abs(0), C0, Add(1, 2)>>
    /\ ret = [kind |-> "int", val |-> 4]
    /\ ~agraph.modified_

\* C10: when the evaluation meets overflow or underflow, EvaluateEquationAt
\* returns an all-NaN array of one value per sample, rows(x) by 1, whatever
\* the number of feature columns of x.
C10_NaNResultHasOutputShape ==
    (last_op = "EvaluateEquationAt" /\ ret # Thrown /\ ret.f.nan)
        => /\ ret.f.rows = NumRows(ret.x)
           /\ ret.f.cols = 1

\* the two gradient operations
GradientOps ==
    {"EvaluateEquationWithXGradientAt",
     "EvaluateEquationWithLocalOptGradientAt"}

\* C11: when the evaluation meets overflow or underflow, both gradient
\* operations return a pair of all-NaN arrays with the shapes of a
\* successful call: the value array rows(x) by 1, the derivative array
\* rows(x) by cols(x) for the gradient in x and rows(x) by the number of
\* constants for the gradient in the constants.
C11_NaNPairHasOutputShapes ==
    (last_op \in GradientOps /\ ret # Thrown /\ ret.f.nan)
        => /\ ret.f.rows = NumRows(ret.x)
           /\ ret.f.cols = 1
           /\ ret.df.rows = NumRows(ret.x)
           /\ ret.df.cols =
                  IF last_op = "EvaluateEquationWithXGradientAt"
                  THEN NumCols(ret.x)
                  ELSE Len(agraph.simplified_constants_)

\* the two directions of a Distance call
DistanceOps == {"Distance", "OtherDistance"}

\* the command array of the object the last Distance call ran on
DistanceReceiver ==
    IF last_op = "Distance" THEN agraph.command_array_
    ELSE other.command_array_

\* the row positions at which two command arrays differ; a row that only
\* one of them has differs
RowsDiffering(a, b) ==
    {i \in 1..(IF Len(a) > Len(b) THEN Len(a) ELSE Len(b)) :
         i > Len(a) \/ i > Len(b) \/ a[i] # b[i]}

\* C12: Distance returns the number of row positions at which the two raw
\* command arrays differ in at least one field, each such row counted
\* once, a row present in only one of them counted as differing.
C12_DistanceCountsDifferingRows ==
    last_op \in DistanceOps
        => /\ ret.kind = "int"
           /\ ret.val = Cardinality(RowsDiffering(DistanceReceiver,
                                                  ret.argument))

\* C13: Distance is symmetric, is zero exactly when the two raw command
\* arrays are identical row for row, and is a pure read: it runs no
\* update() and changes no field of either object, stale or fresh.
C13_DistanceSymmetricZeroIffEqualPure ==
    /\ [][(last_op = "Distance" /\ last_op' = "OtherDistance")
             => /\ ret.kind = "int" /\ ret'.kind = "int"
                /\ ret'.val = ret.val]_vars
    /\ [](last_op \in DistanceOps
             => /\ ret.kind = "int"
                /\ ret.val = 0 <=> DistanceReceiver = ret.argument)
    /\ [][last_op' \in DistanceOps
             => /\ agraph' = agraph /\ other' = other
                /\ ~upd'.ran]_vars

\* the operations called on agraph and on the second object in SpecClone
OriginalOps ==
    {"SetCommandArray", "GetComplexity", "SetFitness", "SetGeneticAge",
     "SetLocalOptimizationParams"}

CloneOps ==
    {"Other.SetCommandArray", "Other.GetComplexity", "Other.SetFitness",
     "Other.SetGeneticAge", "Other.SetLocalOptimizationParams"}

\* a and b agree in each of the nine fields
SameFields(a, b) ==
    /\ a.command_array_ = b.command_array_
    /\ a.simplified_command_array_ = b.simplified_command_array_
    /\ a.simplified_constants_ = b.simplified_constants_
    /\ a.needs_opt_ = b.needs_opt_
    /\ a.fitness_ = b.fitness_
    /\ a.fit_set_ = b.fit_set_
    /\ a.genetic_age_ = b.genetic_age_
    /\ a.modified_ = b.modified_
    /\ a.use_simplification_ = b.use_simplification_

\* C14: right after Copy the clone equals the original in all nine fields,
\* caches and modified_ included; from then on no operation on the original
\* (write, recomputation, fitness, age, constants) changes a field of the
\* clone, and none on the clone changes a field of the original.
C14_CopyIsEqualAndIndependent ==
    /\ [](last_op = "Copy" => SameFields(other, agraph))
    /\ [][last_op' = "Copy" => agraph' = agraph]_vars
    /\ [][last_op' \in OriginalOps => other' = other]_vars
    /\ [][last_op' \in CloneOps => agraph' = agraph]_vars

\* C14 witness: a stale original that keeps the cache, the constants and
\* the fitness value of an earlier recomputation is copied
C14_Witness ==
    /\ last_op = "Copy"
    /\ agraph.modified_ /\ agraph.needs_opt_
    /\ agraph.simplified_command_array_ # <<>>
    /\ agraph.fitness_ # kFitnessNotSet /\ agraph.genetic_age_ # 0
    /\ agraph.use_simplification_
    /\ other = agraph

\* C15: an object constructed from the state DumpState returned equals the
\* dumped object in all nine fields, stale or fresh; DumpState and the
\* construction run no update() and change no field of the dumped object.
C15_DumpStateRoundTrip ==
    /\ [](last_op = "RestoreFromState" => SameFields(other, agraph))
    /\ [][last_op' \in {"DumpState", "RestoreFromState"}
             => /\ agraph' = agraph
                /\ ~upd'.ran]_vars

\* C15 witness: the state of a stale object that keeps an old cache, holds
\* injected constants and was given a fitness after the write is restored
\* stale
C15_Witness ==
    /\ last_op = "RestoreFromState"
    /\ other.modified_ /\ other.fit_set_ /\ ~other.needs_opt_
    /\ other.simplified_command_array_ # <<>>
    /\ other.simplified_constants_ = <<3>>
    /\ other.genetic_age_ # 0
    /\ other = agraph

\* the operations that do not read the derived state
NonDerivedOps ==
    {"GetFitness", "SetFitness", "IsFitnessSet", "SetFitnessStatus",
     "GetGeneticAge", "SetGeneticAge", "GetCommandArray",
     "GetUtilizedCommands", "GetLocalOptimizationParams",
     "GetFormattedStringRaw", "Distance"}

\* C16: GetFitness, SetFitness, IsFitnessSet, SetFitnessStatus,
\* GetGeneticAge, SetGeneticAge, GetCommandArray, GetUtilizedCommands,
\* GetLocalOptimizationParams, GetFormattedString with raw = true and
\* Distance run no update() and leave modified_, the raw and the simplified
\* command array and the constants vector as they were, on a stale and on a
\* fresh object.
C16_NonDerivedOpsLeaveDerivedState ==
    [][last_op' \in NonDerivedOps
          => /\ ~upd'.ran
             /\ agraph'.modified_ = agraph.modified_
             /\ agraph'.command_array_ = agraph.command_array_
             /\ agraph'.simplified_command_array_
                    = agraph.simplified_command_array_
             /\ agraph'.simplified_constants_
                    = agraph.simplified_constants_]_vars

\* C16 witness: GetUtilizedCommands answers from the raw command array of a
\* stale object whose cache still holds the shorter simplified form of an
\* earlier program
C16_Witness ==
    /\ last_op = "GetUtilizedCommands"
    /\ agraph.modified_
    /\ Len(ret.mask) = Len(agraph.command_array_)
    /\ agraph.simplified_command_array_ # <<>>
    /\ Len(agraph.simplified_command_array_) < Len(agraph.command_array_)

\* the three overloads that set the constants vector
SetParamsOps ==
    {"SetLocalOptimizationParams", "SetLocalOptimizationParamsV",
     "SetLocalOptimizationParamsA"}

\* C17: each of the three SetLocalOptimizationParams overloads replaces the
\* constants vector with the values it is given and leaves needs_opt_
\* false, on a stale and on a fresh object, without running update() and
\* without changing modified_, fitness_, fit_set_ or either command array.
C17_SetParamsStoresAndClearsFlag ==
    [][last_op' \in SetParamsOps
          => /\ agraph'.simplified_constants_ = ret'.params
             /\ ~agraph'.needs_opt_
             /\ ~upd'.ran
             /\ agraph'.modified_ = agraph.modified_
             /\ agraph'.fitness_ = agraph.fitness_
             /\ agraph'.fit_set_ = agraph.fit_set_
             /\ agraph'.command_array_ = agraph.command_array_
             /\ agraph'.simplified_command_array_
                    = agraph.simplified_command_array_]_vars

\* C17 witness: two values are stored in a stale object whose cached
\* simplified command array holds one constant
C17_Witness ==
    /\ last_op = "SetLocalOptimizationParamsA"
    /\ agraph.modified_
    /\ Cardinality(ConstantRows(agraph.simplified_command_array_)) = 1
    /\ agraph.simplified_constants_ = <<3, 4>>
    /\ ret.params = <<3, 4>>
    /\ ~agraph.needs_opt_

\* C18: GetNumberLocalOptimizationParams returns the number of constant
\* rows of the simplified form of the current raw command array, after any
\* sequence of operations, also after the constants vector was set to a
\* vector of another length.
C18_ParamCountIsConstantCount ==
    (last_op = "GetNumberLocalOptimizationParams" /\ ret # Thrown)
        => \E pre \in StrategyResults(agraph) :
               ret.val = Cardinality(ConstantRows(pre))

\* C19: for an object created empty and driven by replacements of the raw
\* command array and derived accessors, whenever NeedsLocalOptimization
\* returns true the simplified command array holds at least one constant.
C19_NeedsOptImpliesConstants ==
    (last_op = "NeedsLocalOptimization" /\ ret # Thrown /\ ret.val)
        => ConstantRows(agraph.simplified_command_array_) # {}

\* C19 as the code has it: under replacements and derived accessors
\* needs_opt_ turns true only in an update() that finds more constants than
\* the constants vector held, so at least one, and from then on stays true
\* through every later replacement and recomputation, whatever the number
\* of constants left.
C19_FlagRisesWithConstantsAndStays ==
    /\ [][(~agraph.needs_opt_ /\ agraph'.needs_opt_)
             => /\ upd'.ran
                /\ Cardinality(ConstantRows(
                        agraph'.simplified_command_array_))
                       > upd'.rows_before]_vars
    /\ [][agraph.needs_opt_ => agraph'.needs_opt_]_vars

\* C19 witness: NeedsLocalOptimization recomputes an emptied program,
\* finds no constant, truncates the constants vector and still returns the
\* flag an earlier program had raised
C19_Witness ==
    /\ last_op = "NeedsLocalOptimization" /\ upd.ran
    /\ upd.rows_before > 0
    /\ ret.val
    /\ agraph.command_array_ = <<>>
    /\ agraph.simplified_constants_ = <<>>

\* the object the last operation was called on
LastObject == IF last_op \in CloneOps THEN other ELSE agraph

\* the simplified command array the strategy of g gives for its raw
\* command array, before renumbering: the thorough strategy when
\* use_simplification_ is set, the local one when it is not
ByStrategyOf(g) ==
    IF g.use_simplification_
    THEN PythonSimplifyStack(g.command_array_, ~upd.oracle_failed).stack
    ELSE SimplifyStack(g.command_array_)

\* C20: no operation changes use_simplification_ of the object or of its
\* clone, Copy and the construction from a dumped state hand it on
\* unchanged, and every update() simplifies with the strategy the flag
\* names: the thorough one when it is true, the local one when it is false.
C20_StrategyFlagIsFixed ==
    /\ [][agraph'.use_simplification_ = agraph.use_simplification_]_vars
    /\ [][HasOther => other'.use_simplification_
                         = other.use_simplification_]_vars
    /\ [](HasOther => other.use_simplification_
                         = agraph.use_simplification_)
    /\ [](upd.ran => Renumbered(ByStrategyOf(LastObject),
                                LastObject.simplified_command_array_))

\* C20 witness: the second object, made from one built with the thorough
\* strategy, recomputes its four-row program and holds the oracle's
\* one-row answer, while the first holds the four rows of the fallback
C20_Witness ==
    /\ last_op = "Other.GetComplexity" /\ upd.ran /\ ~upd.oracle_failed
    /\ other.use_simplification_
    /\ Len(other.command_array_) = 4
    /\ Len(other.simplified_command_array_) = 1
    /\ Len(agraph.simplified_command_array_) = 4

====
